---- MODULE Spec2Model ----
(***************************************************************************)
(* Annotation session state machine of fast_annotate (src/main.py): the    *)
(* navigation cursor, the filters, the undo history, the multi-selection   *)
(* and the annotation table, with one action per request handler.          *)
(*                                                                         *)
(* Image paths are the integers 1..NumImages; their integer order is the   *)
(* sorted() order of get_image_files.  None is 0 for an image path and     *)
(* NoFilter (-1) for state.filter_rating.  The annotation table is kept    *)
(* per image path as the sequence of its rows in rowid order: the code     *)
(* reads the table either as a set of paths (annotations()) or through     *)
(* annotations("image_path=?", ..., limit=1), the first row of one path.   *)
(***************************************************************************)
EXTENDS Integers, Sequences, FiniteSets, TLC

\* ---------------------------------------------------------------- bounds
NumImages == 3
num_classes == 2
max_history == 2
per_page == 2

Images == 1..NumImages
None == 0
NoFilter == -1
Malformed == -2
Ratings == 1..num_classes

VARIABLES
    current_index,      \* state.current_index (0-based)
    filter_unannotated, \* state.filter_unannotated
    filter_rating,      \* state.filter_rating, NoFilter for None
    history,            \* state.history, newest last
    selected,           \* state.selected
    last_anchor,        \* state.last_anchor, None = 0
    files,              \* image files on disk under config.images_folder
    table,              \* annotations: path -> rows [rating, marked] in rowid order
    other_folder,       \* [files, table] of the second folder under data/
    requests,           \* rate requests in the worker threads: position and locals
    scan                \* a navigate call in progress: position and locals

vars == <<current_index, filter_unannotated, filter_rating, history,
          selected, last_anchor, files, table, other_folder, requests, scan>>

\* The session as one value, so that handlers are functions of it.
St ==
    [current_index |-> current_index, filter_unannotated |-> filter_unannotated,
     filter_rating |-> filter_rating, history |-> history, selected |-> selected,
     last_anchor |-> last_anchor, files |-> files, table |-> table]

\* ------------------------------------------------------------- helpers
Min(a, b) == IF a <= b THEN a ELSE b
Abs(a) == IF a < 0 THEN -a ELSE a

\* get_image_files(): the files on disk, sorted (1-based sequence).
get_image_files(s) ==
    SelectSeq([i \in 1..NumImages |-> i], LAMBDA p: p \in s.files)

\* images[i] of the code, i 0-based.
ImageAt(s, i) == get_image_files(s)[i + 1]

\* {a.image_path for a in annotations()}
annotated_images(s) == {p \in Images : s.table[p] # <<>>}

\* {a.image_path for a in annotations() if a.rating == r}
rating_images(s, r) ==
    {p \in Images : \E k \in 1..Len(s.table[p]) : s.table[p][k].rating = r}

\* get_annotation_for_image: the first row of the path, or the default.
get_annotation_for_image(s, p) ==
    IF p \in Images /\ s.table[p] # <<>>
    THEN [rating |-> s.table[p][1].rating, marked |-> s.table[p][1].marked]
    ELSE [rating |-> 0, marked |-> FALSE]

\* index_of_image: 0-based position in the catalog, or -1.
index_of_image(s, p) ==
    LET imgs == get_image_files(s)
        hits == {i \in 1..Len(imgs) : imgs[i] = p}
    IN IF hits = {} THEN -1 ELSE (CHOOSE i \in hits : TRUE) - 1

\* The filter predicate of get_current_image and navigate, None when no filter.
FilterActive(s) == s.filter_unannotated \/ s.filter_rating # NoFilter

Matches(s, p) ==
    IF s.filter_unannotated THEN p \notin annotated_images(s)
    ELSE p \in rating_images(s, s.filter_rating)

\* get_current_image(): [img, idx, exc], img = None when the code returns None,
\* idx the value of state.current_index afterwards, exc when images[i] raises
\* IndexError in the wrap-around loop (current_index beyond the catalog).
get_current_image(s) ==
    LET n == Len(get_image_files(s))
        ci == s.current_index
        fwd == {i \in ci..(n - 1) : Matches(s, ImageAt(s, i))}
        back == {i \in 0..(Min(ci, n) - 1) : Matches(s, ImageAt(s, i))}
        first(S) == CHOOSE i \in S : \A j \in S : i <= j
    IN IF n = 0 THEN [img |-> None, idx |-> ci, exc |-> FALSE]
       ELSE IF FilterActive(s) THEN
            IF fwd # {} THEN [img |-> ImageAt(s, first(fwd)), idx |-> ci, exc |-> FALSE]
            ELSE IF back # {}
                 THEN [img |-> ImageAt(s, first(back)), idx |-> first(back), exc |-> FALSE]
            ELSE IF ci > n THEN [img |-> None, idx |-> ci, exc |-> TRUE]
            ELSE [img |-> None, idx |-> ci, exc |-> FALSE]
       ELSE IF 0 <= ci /\ ci < n
            THEN [img |-> ImageAt(s, ci), idx |-> ci, exc |-> FALSE]
            ELSE [img |-> None, idx |-> ci, exc |-> FALSE]

\* index(): the page render every handler ends with.  It re-resolves the current
\* image and resets the cursor to 0 when there is none.  An IndexError raised by
\* get_current_image ends the request with the state as it is.
index(s) ==
    LET r == get_current_image(s)
    IN IF get_image_files(s) = <<>> THEN s
       ELSE IF r.exc THEN s
       ELSE IF r.img = None THEN [s EXCEPT !.current_index = 0]
       ELSE [s EXCEPT !.current_index = r.idx]

\* What the caller of a handler that returns index() gets back: the rendered
\* page (HTTP 200), or a server error (HTTP 500) when get_current_image raises.
index_response(s) ==
    IF get_image_files(s) # <<>> /\ get_current_image(s).exc
    THEN [status |-> 500, view |-> "error"]
    ELSE [status |-> 200, view |-> "index"]

\* Mutant of add_to_history: the truncation keeps the oldest entries, h[:max].
add_to_history_keep_oldest(h, e) ==
    LET h2 == Append(h, e)
    IN IF Len(h2) > max_history THEN SubSeq(h2, 1, max_history) ELSE h2

\* state.history.append(e) followed by the max_history truncation.
add_to_history(h, e) ==
    LET h2 == Append(h, e)
    IN IF Len(h2) > max_history
       THEN SubSeq(h2, Len(h2) - max_history + 1, Len(h2))
       ELSE h2

HistoryEntry(p, old, idx, act) ==
    [image_name |-> p, old_rating |-> old, index |-> idx, action |-> act]

\* Mutant of save_rating: the update rewrites the whole row, marked included.
save_rating_clobber(t, p, r) ==
    [t EXCEPT ![p] = <<[rating |-> r, marked |-> FALSE]>>]

\* annotations.update({'rating': r, ...}, existing[0].id) or annotations.insert
\* ({..., 'rating': r, 'marked': False}): the rating upsert of rate and batch_rate.
save_rating(t, p, r) ==
    IF t[p] # <<>>
    THEN [t EXCEPT ![p][1].rating = r]
    ELSE [t EXCEPT ![p] = <<[rating |-> r, marked |-> FALSE]>>]

\* annotations.insert(...): a new row, after all existing rows.
insert_row(t, p, r, m) == [t EXCEPT ![p] = Append(@, [rating |-> r, marked |-> m])]

\* annotations.delete(existing[0].id) when a row exists.
delete_first_row(t, p) ==
    IF t[p] # <<>> THEN [t EXCEPT ![p] = Tail(@)] ELSE t


\* ---------------------------------------------------------- navigation
\* The while loop of navigate() under a filter: step new_index by direction until
\* it leaves the catalog, lands on a matching image, or attempts runs out.
RECURSIVE nav_scan(_, _, _, _)
nav_scan(s, new_index, attempts, direction) ==
    LET n == Len(get_image_files(s))
        ni == new_index + direction
    IN IF ~(attempts < n) THEN s.current_index
       ELSE IF ~(0 <= ni /\ ni < n) THEN s.current_index
       ELSE IF Matches(s, ImageAt(s, ni)) THEN ni
       ELSE nav_scan(s, ni, attempts + 1, direction)

\* Mutant of navigate: unfiltered navigation wraps around the catalog ends.
navigate_wrap(s, direction) ==
    LET n == Len(get_image_files(s))
    IN IF FilterActive(s)
       THEN [s EXCEPT !.current_index = nav_scan(s, s.current_index, 0, direction)]
       ELSE IF n > 0
            THEN [s EXCEPT !.current_index = (s.current_index + direction + n) % n]
            ELSE s

\* Mutant of navigate: filtered navigation steps once without testing the filter.
navigate_no_skip(s, direction) ==
    LET n == Len(get_image_files(s))
        new_index == s.current_index + direction
    IN IF 0 <= new_index /\ new_index < n
       THEN [s EXCEPT !.current_index = new_index]
       ELSE s

\* navigate(direction)
navigate(s, direction) ==
    LET n == Len(get_image_files(s))
        new_index == s.current_index + direction
    IN IF FilterActive(s)
       THEN [s EXCEPT !.current_index = nav_scan(s, s.current_index, 0, direction)]
       ELSE IF 0 <= new_index /\ new_index < n
            THEN [s EXCEPT !.current_index = new_index]
            ELSE s

\* prev() and next(): navigate, then render.
prev(s) == index(navigate(s, -1))
next(s) == index(navigate(s, 1))

\* ---------------------------------------------------------------- rating
\* The body of rate / rate_and_next for a current image: push the undo entry,
\* truncate the history, upsert the rating.
record_rating(s, img, rating) ==
    [s EXCEPT
        !.history = add_to_history(@,
            HistoryEntry(img, get_annotation_for_image(s, img).rating,
                         s.current_index, "rate")),
        !.table = save_rating(@, img, rating)]

\* Mutant of rate: the range check on the rating is left out.
rate_unchecked(s, rating) ==
    LET r == get_current_image(s)
        s1 == [s EXCEPT !.current_index = r.idx]
    IN IF r.exc THEN s
       ELSE IF r.img # None THEN index(record_rating(s1, r.img, rating))
       ELSE index(s1)

\* rate(rating): button click, stay on the image.
rate(s, rating) ==
    LET r == get_current_image(s)
        s1 == [s EXCEPT !.current_index = r.idx]
    IN IF rating < 1 \/ rating > num_classes THEN index(s)
       ELSE IF r.exc THEN s
       ELSE IF r.img # None THEN index(record_rating(s1, r.img, rating))
       ELSE index(s1)

\* Mutant of rate_and_next: the rating is stored and the cursor stays, as in
\* rate.
rate_and_next_stay(s, rating) ==
    LET r == get_current_image(s)
        s1 == [s EXCEPT !.current_index = r.idx]
    IN IF rating < 1 \/ rating > num_classes THEN index(s)
       ELSE IF r.exc THEN s
       ELSE IF r.img # None THEN index(record_rating(s1, r.img, rating))
       ELSE index(s1)

\* rate_and_next(rating): keyboard shortcut, rate then navigate(1).
rate_and_next(s, rating) ==
    LET r == get_current_image(s)
        s1 == [s EXCEPT !.current_index = r.idx]
    IN IF rating < 1 \/ rating > num_classes THEN index(s)
       ELSE IF r.exc THEN s
       ELSE IF r.img # None THEN index(navigate(record_rating(s1, r.img, rating), 1))
       ELSE index(s1)

\* AppState.save_annotation of src/models.py (the CSV variant): annotations maps
\* an image to its class, 0 for an image without an entry; write_ok is the
\* result of save_all_annotations.
save_annotation(annotations, image_name, rating, write_ok) ==
    IF rating \notin Ratings
    THEN [ok |-> FALSE, annotations |-> annotations]
    ELSE [ok |-> write_ok, annotations |-> [annotations EXCEPT ![image_name] = rating]]

\* ------------------------------------------------------------------ mark
\* mark(): toggle the marked flag of the current image's first row, or create
\* a row with rating 0 and marked True.
mark_image(t, p) ==
    IF t[p] # <<>>
    THEN [t EXCEPT ![p][1].marked = ~@]
    ELSE insert_row(t, p, 0, TRUE)

\* Mutant of mark: the toggle is recorded in the undo log like a rating.
mark_recorded(s) ==
    LET r == get_current_image(s)
        s1 == [s EXCEPT !.current_index = r.idx]
    IN IF r.exc THEN s
       ELSE IF r.img # None
            THEN index([s1 EXCEPT
                    !.history = add_to_history(@,
                        HistoryEntry(r.img, get_annotation_for_image(s, r.img).rating,
                                     s1.current_index, "rate")),
                    !.table = mark_image(@, r.img)])
       ELSE index(s1)

\* mark()
mark(s) ==
    LET r == get_current_image(s)
        s1 == [s EXCEPT !.current_index = r.idx]
    IN IF r.exc THEN s
       ELSE IF r.img # None THEN index([s1 EXCEPT !.table = mark_image(@, r.img)])
       ELSE index(s1)

\* ---------------------------------------------------------------- delete
\* Mutant of delete: the record is deleted before the file is unlinked, so it
\* is gone when the unlink fails.
delete_record_first(s, unlink_ok) ==
    LET r == get_current_image(s)
        s1 == [s EXCEPT !.current_index = r.idx]
        old == get_annotation_for_image(s1, r.img).rating
    IN IF r.exc THEN s
       ELSE IF r.img = None THEN index(s1)
       ELSE IF ~unlink_ok
            THEN index([s1 EXCEPT !.table = delete_first_row(@, r.img)])
       ELSE index([s1 EXCEPT
                !.files = @ \ {r.img},
                !.history = add_to_history(@,
                    HistoryEntry(r.img, old, s1.current_index, "delete")),
                !.table = delete_first_row(@, r.img)])

\* Mutant of delete: after a successful delete the handler steps to the next
\* image, as rate_and_next does.
delete_and_next(s, unlink_ok) ==
    LET r == get_current_image(s)
        s1 == [s EXCEPT !.current_index = r.idx]
        old == get_annotation_for_image(s1, r.img).rating
    IN IF r.exc THEN s
       ELSE IF r.img = None THEN index(s1)
       ELSE IF ~unlink_ok THEN index(s1)
       ELSE index(navigate([s1 EXCEPT
                !.files = @ \ {r.img},
                !.history = add_to_history(@,
                    HistoryEntry(r.img, old, s1.current_index, "delete")),
                !.table = delete_first_row(@, r.img)], 1))

\* delete(): unlink the current image's file, push a delete entry, delete the
\* first row of the image.  unlink_ok = FALSE is the except branch (read or
\* unlink raised): return index() without changes.
delete(s, unlink_ok) ==
    LET r == get_current_image(s)
        s1 == [s EXCEPT !.current_index = r.idx]
        old == get_annotation_for_image(s1, r.img).rating
    IN IF r.exc THEN s
       ELSE IF r.img = None THEN index(s1)
       ELSE IF ~unlink_ok THEN index(s1)
       ELSE index([s1 EXCEPT
                !.files = @ \ {r.img},
                !.history = add_to_history(@,
                    HistoryEntry(r.img, old, s1.current_index, "delete")),
                !.table = delete_first_row(@, r.img)])

\* ------------------------------------------------------------------ undo
\* Mutant of undo_delete: the restored image always gets a record back, also
\* for a prior rating of 0.
undo_delete_always_insert(s, e, restore_ok) ==
    LET restored ==
            IF restore_ok
            THEN [s EXCEPT
                    !.files = @ \cup {e.image_name},
                    !.table = insert_row(@, e.image_name, e.old_rating, FALSE)]
            ELSE s
    IN [restored EXCEPT !.current_index = e.index]

\* The 'delete' branch of undo(): rewrite the file and, when old_rating > 0,
\* insert a row with that rating.  restore_ok = FALSE is the except branch
\* (mkdir or write raised) or an empty image_data: nothing is restored.
undo_delete(s, e, restore_ok) ==
    LET restored ==
            IF restore_ok
            THEN [s EXCEPT
                    !.files = @ \cup {e.image_name},
                    !.table = IF e.old_rating > 0
                              THEN insert_row(@, e.image_name, e.old_rating, FALSE)
                              ELSE @]
            ELSE s
    IN [restored EXCEPT !.current_index = e.index]

\* Mutant of undo_rate: the restored row is rewritten as a fresh, unmarked one.
undo_rate_unmark(s, e) ==
    LET p == e.image_name
        t2 == IF e.old_rating = 0 THEN delete_first_row(s.table, p)
              ELSE IF s.table[p] # <<>>
                   THEN [s.table EXCEPT ![p][1] = [rating |-> e.old_rating, marked |-> FALSE]]
                   ELSE s.table
    IN [s EXCEPT !.table = t2, !.current_index = e.index]

\* Mutant of undo_rate: a prior rating of 0 is written back into the row
\* instead of deleting the row.
undo_rate_write_zero(s, e) ==
    LET p == e.image_name
        t2 == IF s.table[p] # <<>>
              THEN [s.table EXCEPT ![p][1].rating = e.old_rating]
              ELSE s.table
    IN [s EXCEPT !.table = t2, !.current_index = e.index]

\* The rating branch of undo(): old_rating 0 deletes the first row of the image,
\* otherwise the first row's rating is set back.
undo_rate(s, e) ==
    LET p == e.image_name
        t2 == IF e.old_rating = 0 THEN delete_first_row(s.table, p)
              ELSE IF s.table[p] # <<>>
                   THEN [s.table EXCEPT ![p][1].rating = e.old_rating]
                   ELSE s.table
    IN [s EXCEPT !.table = t2, !.current_index = e.index]

\* Mutant of pop_history: pops the oldest entry, h.pop(0).
pop_history_oldest(h) == Tail(h)

\* history.pop()
pop_history(h) == SubSeq(h, 1, Len(h) - 1)

\* undo() up to its return statement.
undo_body(s, restore_ok) ==
    LET e == s.history[Len(s.history)]
        s1 == [s EXCEPT !.history = pop_history(@)]
    IN IF s.history = <<>> THEN s
       ELSE IF e.action = "delete" THEN undo_delete(s1, e, restore_ok)
       ELSE undo_rate(s1, e)

\* undo()
undo(s, restore_ok) == index(undo_body(s, restore_ok))

\* What the caller of undo() gets back: return index() on every path, the
\* except branch of the restore included.
undo_response(s, restore_ok) == index_response(undo_body(s, restore_ok))


\* --------------------------------------------------------------- filters
\* The position of the first catalog image in the set S, or the current index
\* when there is none (the for ... break loops of toggle_filter / filter_rating).
first_index_in(s, S) ==
    LET imgs == get_image_files(s)
        hits == {i \in 1..Len(imgs) : imgs[i] \in S}
    IN IF hits = {} THEN s.current_index
       ELSE (CHOOSE i \in hits : \A j \in hits : i <= j) - 1

\* Mutant of toggle_filter: the Rating filter is not cleared.
toggle_filter_keep_rating(s) ==
    LET s1 == [s EXCEPT !.filter_unannotated = ~@]
    IN IF s1.filter_unannotated
       THEN index([s1 EXCEPT
                !.current_index = first_index_in(s1, Images \ annotated_images(s1))])
       ELSE index(s1)

\* toggle_filter()
toggle_filter(s) ==
    LET s1 == [s EXCEPT !.filter_unannotated = ~@]
    IN IF s1.filter_unannotated
       THEN index([s1 EXCEPT
                !.filter_rating = NoFilter,
                !.current_index = first_index_in(s1, Images \ annotated_images(s1))])
       ELSE index(s1)

\* Mutant of set_filter_rating: the loop that seeks the first image with the
\* selected rating is left out.
set_filter_rating_no_seek(s, v) ==
    IF v = NoFilter
    THEN index([s EXCEPT !.filter_rating = NoFilter])
    ELSE IF v = Malformed THEN s
    ELSE index([s EXCEPT !.filter_rating = v, !.filter_unannotated = FALSE])

\* filter_rating(rating_filter_select): v = NoFilter stands for the empty string,
\* Malformed for a string int() raises ValueError on (the request ends before
\* anything is assigned), any other v for the string of that integer.
set_filter_rating(s, v) ==
    IF v = NoFilter
    THEN index([s EXCEPT !.filter_rating = NoFilter])
    ELSE IF v = Malformed THEN s
    ELSE LET s1 == [s EXCEPT !.filter_rating = v, !.filter_unannotated = FALSE]
         IN index([s1 EXCEPT !.current_index = first_index_in(s1, rating_images(s1, v))])

\* ---------------------------------------------------------------- folders
\* find_first_unannotated(): the position of the first catalog image without a
\* record, 0 when there is none.
find_first_unannotated(s) ==
    LET imgs == get_image_files(s)
        hits == {i \in 1..Len(imgs) : imgs[i] \notin annotated_images(s)}
    IN IF hits = {} THEN 0 ELSE (CHOOSE i \in hits : \A j \in hits : i <= j) - 1

\* Mutant of switch_folder: the cursor stays on the first image after the
\* reset.
switch_folder_first_image(s, folder) ==
    [current_index |-> 0, filter_unannotated |-> FALSE,
     filter_rating |-> NoFilter, history |-> <<>>, selected |-> {},
     last_anchor |-> None, files |-> folder.files, table |-> folder.table]

\* switch_folder(new_folder): folder is the [files, table] found under
\* data/new_folder; the session is reset and the cursor put on the first
\* image without a record.
switch_folder(s, folder) ==
    LET s1 == [current_index |-> 0, filter_unannotated |-> FALSE,
               filter_rating |-> NoFilter, history |-> <<>>, selected |-> {},
               last_anchor |-> None, files |-> folder.files, table |-> folder.table]
    IN [s1 EXCEPT !.current_index = find_first_unannotated(s1)]

\* switch_folder_endpoint(folder_select): known is folder_select in
\* get_available_folders().
switch_folder_endpoint(s, known, folder) ==
    IF known THEN index(switch_folder(s, folder)) ELSE index(s)

\* -------------------------------------------------------------- cleanup
\* Mutant of cleanup_orphaned_entries: one record is deleted per orphaned
\* path, as the limit=1 lookups of the handlers do.
cleanup_first_record(s) ==
    [s EXCEPT !.table = [p \in Images |-> IF p \in s.files THEN s.table[p]
                                          ELSE IF s.table[p] # <<>> THEN Tail(s.table[p])
                                          ELSE <<>>]]

\* cleanup_orphaned_entries(): every record whose image_path is not a path of
\* get_image_files() is deleted.
cleanup_orphaned_entries(s) ==
    [s EXCEPT !.table = [p \in Images |-> IF p \in s.files THEN s.table[p] ELSE <<>>]]

\* The tool is stopped and started again on the same folder: the cleanup of
\* the KeyboardInterrupt branch, then on_disk, the files found at the next
\* start, state = AppState(), current_index = find_first_unannotated() and the
\* cleanup of the start.
restart(s, on_disk) ==
    LET down == cleanup_orphaned_entries(s)
        s0 == [current_index |-> 0, filter_unannotated |-> FALSE,
               filter_rating |-> NoFilter, history |-> <<>>, selected |-> {},
               last_anchor |-> None, files |-> on_disk, table |-> down.table]
    IN cleanup_orphaned_entries([s0 EXCEPT !.current_index = find_first_unannotated(s0)])

\* ------------------------------------------------------------------ jump
\* annotate_image(image_name) / annotate_query(image)
annotate_image(s, image_name) ==
    LET idx == index_of_image(s, image_name)
    IN IF idx >= 0 THEN index([s EXCEPT !.current_index = idx]) ELSE index(s)

\* open_first_selected()
open_first_selected(s) ==
    IF s.selected # {}
    THEN index([s EXCEPT !.current_index = first_index_in(s, s.selected)])
    ELSE index(s)

\* ---------------------------------------------------------------- browse
\* str(p).lower() as a sort key.  The catalog is B.jpg, a.jpg, b.jpg, c.jpg, ...
\* (sorted() is case-sensitive), so paths 1 and 3 tie on the lower-cased name.
LowerKey(p) == IF p = 1 THEN 2 ELSE p - 1

SortModes == {"name", "name_desc", "rating_desc", "rating_asc", "marked_first"}
ShowModes == {"all", "annotated", "unannotated"}

\* get_annotations_map(): a later row of a path overwrites an earlier one.
get_annotations_map(s, p) ==
    IF s.table[p] # <<>>
    THEN [rating |-> s.table[p][Len(s.table[p])].rating,
          marked |-> s.table[p][Len(s.table[p])].marked]
    ELSE [rating |-> 0, marked |-> FALSE]

\* q.lower() in sp.lower() for the search strings "", "a", "b" and "z": every
\* name contains "", a.jpg contains "a", B.jpg and b.jpg contain "b", no name
\* contains "z".
Queries == {"", "a", "b", "z"}

NameContains(q, p) ==
    \/ q = ""
    \/ q = "a" /\ LowerKey(p) = 1
    \/ q = "b" /\ LowerKey(p) = 2

\* The items kept by the filter loop of _filtered_items, in catalog order.
filtered_unsorted(s, q, rating_val, show, marked_only) ==
    SelectSeq(get_image_files(s), LAMBDA p:
        LET ann == get_annotations_map(s, p)
        IN /\ NameContains(q, p)
           /\ (rating_val # NoFilter => ann.rating = rating_val)
           /\ (show = "annotated" => ann.rating > 0)
           /\ (show = "unannotated" => ann.rating <= 0)
           /\ (marked_only => ann.marked))

\* Lexicographic < on the sort key of an item under a sort mode.
KeyLess(s, sort, p, q) ==
    LET rp == get_annotations_map(s, p).rating
        rq == get_annotations_map(s, q).rating
        mp == IF get_annotations_map(s, p).marked THEN 0 ELSE 1
        mq == IF get_annotations_map(s, q).marked THEN 0 ELSE 1
    IN IF sort \in {"rating_desc", "rating_asc"}
       THEN rp < rq \/ (rp = rq /\ LowerKey(p) < LowerKey(q))
       ELSE IF sort = "marked_first"
       THEN mp < mq \/ (mp = mq /\ LowerKey(p) < LowerKey(q))
       ELSE LowerKey(p) < LowerKey(q)

\* list.sort(key=..., reverse=...): stable, also when reversed.
stable_sort(s, items, sort) ==
    LET n == Len(items)
        rev == sort \in {"name_desc", "rating_desc"}
        before(i, j) ==
            IF rev THEN KeyLess(s, sort, items[j], items[i])
            ELSE KeyLess(s, sort, items[i], items[j])
        tie(i, j) == ~before(i, j) /\ ~before(j, i)
        rank(i) == Cardinality({j \in 1..n : before(j, i) \/ (tie(i, j) /\ j < i)}) + 1
    IN [k \in 1..n |-> items[CHOOSE i \in 1..n : rank(i) = k]]

\* _filtered_items(q, rating, show, marked, sort): the browse ordering (paths
\* only; rating and marked of an item are get_annotations_map of its path).
filtered_items(s, q, rating_val, show, marked_only, sort) ==
    stable_sort(s, filtered_unsorted(s, q, rating_val, show, marked_only), sort)

\* render_browser_grid(..., page): the page served.  page = Malformed stands
\* for a string int() raises on; items[start:end] is empty beyond the list.
render_browser_grid(s, q, rating_val, show, marked_only, sort, page) ==
    LET page_i == IF page = Malformed \/ page < 1 THEN 1 ELSE page
        items == filtered_items(s, q, rating_val, show, marked_only, sort)
        total == Len(items)
        start == (page_i - 1) * per_page
        end == start + per_page
    IN [page_i |-> page_i,
        page_items |-> SubSeq(items, start + 1, Min(end, total)),
        total |-> total,
        total_pages |-> IF total = 0 THEN 1 ELSE (total + per_page - 1) \div per_page]

\* Mutant of browse: the request drops from the selection every path its
\* filtered result does not hold.
browse_pruning_selection(s, q, rating_val, show, marked_only, sort, page) ==
    LET items == filtered_items(s, q, rating_val, show, marked_only, sort)
    IN [s EXCEPT !.selected = @ \cap {items[k] : k \in 1..Len(items)}]

\* browse(...) and browse_grid(...): the session after the request; the
\* handlers only read it.
browse(s, q, rating_val, show, marked_only, sort, page) == s

\* ------------------------------------------------------------- selection
\* order.index(x), 1-based, 0 when x is not in order (ValueError).
order_index(order, x) ==
    LET hits == {i \in 1..Len(order) : order[i] = x}
    IN IF hits = {} THEN 0 ELSE CHOOSE i \in hits : \A j \in hits : i <= j

toggle_member(S, x) == IF x \in S THEN S \ {x} ELSE S \cup {x}

\* Mutant of toggle_select: the range slice leaves out its last item,
\* order[start:end].
toggle_select_half_open(s, image, shift_on, order) ==
    LET i1 == order_index(order, s.last_anchor)
        i2 == order_index(order, image)
        lo == Min(i1, i2)
        hi == IF i1 <= i2 THEN i2 ELSE i1
    IN IF image = None THEN s
       ELSE IF shift_on /\ s.last_anchor # None /\ i1 # 0 /\ i2 # 0
       THEN [s EXCEPT !.selected = @ \cup {order[k] : k \in lo..(hi - 1)},
                      !.last_anchor = image]
       ELSE [s EXCEPT !.selected = toggle_member(@, image),
                      !.last_anchor = image]

\* Mutant of toggle_select: the ValueError branch toggles nothing, the anchor
\* alone moves.
toggle_select_skip_missing(s, image, shift_on, order) ==
    LET i1 == order_index(order, s.last_anchor)
        i2 == order_index(order, image)
        lo == Min(i1, i2)
        hi == IF i1 <= i2 THEN i2 ELSE i1
    IN IF image = None THEN s
       ELSE IF shift_on /\ s.last_anchor # None /\ i1 # 0 /\ i2 # 0
       THEN [s EXCEPT !.selected = @ \cup {order[k] : k \in lo..hi},
                      !.last_anchor = image]
       ELSE IF shift_on /\ s.last_anchor # None
       THEN [s EXCEPT !.last_anchor = image]
       ELSE [s EXCEPT !.selected = toggle_member(@, image),
                      !.last_anchor = image]

\* Mutant of toggle_select: a plain click moves the anchor only when it adds
\* the image.
toggle_select_anchor_on_add(s, image, shift_on, order) ==
    LET i1 == order_index(order, s.last_anchor)
        i2 == order_index(order, image)
        lo == Min(i1, i2)
        hi == IF i1 <= i2 THEN i2 ELSE i1
    IN IF image = None THEN s
       ELSE IF shift_on /\ s.last_anchor # None /\ i1 # 0 /\ i2 # 0
       THEN [s EXCEPT !.selected = @ \cup {order[k] : k \in lo..hi},
                      !.last_anchor = image]
       ELSE [s EXCEPT !.selected = toggle_member(@, image),
                      !.last_anchor = IF image \in s.selected THEN @ ELSE image]

\* toggle_select(image, shift, ...): order is the browse ordering of the request.
toggle_select(s, image, shift_on, order) ==
    LET i1 == order_index(order, s.last_anchor)
        i2 == order_index(order, image)
        lo == Min(i1, i2)
        hi == IF i1 <= i2 THEN i2 ELSE i1
    IN IF image = None THEN s
       ELSE IF shift_on /\ s.last_anchor # None /\ i1 # 0 /\ i2 # 0
       THEN [s EXCEPT !.selected = @ \cup {order[k] : k \in lo..hi},
                      !.last_anchor = image]
       ELSE [s EXCEPT !.selected = toggle_member(@, image),
                      !.last_anchor = image]

\* clear_selection()
clear_selection(s) == [s EXCEPT !.selected = {}]

\* ----------------------------------------------------------------- batch
\* Mutant of batch_rate: an applied batch rating is logged for undo like a
\* rating of the annotator, once per selected path.
batch_rate_recorded(s, val) ==
    LET log(h, p) == add_to_history(h,
                        HistoryEntry(p, get_annotation_for_image(s, p).rating,
                                     s.current_index, "rate"))
        RECURSIVE logged(_, _)
        logged(h, S) ==
            IF S = {} THEN h
            ELSE LET p == CHOOSE x \in S : \A y \in S : x <= y
                 IN logged(log(h, p), S \ {p})
    IN IF 1 <= val /\ val <= num_classes
       THEN [s EXCEPT !.table =
               [p \in Images |-> IF p \in s.selected THEN save_rating(s.table, p, val)[p]
                                 ELSE s.table[p]],
                      !.history = logged(@, s.selected)]
       ELSE s

\* Mutant of batch_rate: an applied batch rating ends the selection.
batch_rate_deselect(s, val) ==
    IF 1 <= val /\ val <= num_classes
    THEN [s EXCEPT !.table =
            [p \in Images |-> IF p \in s.selected THEN save_rating(s.table, p, val)[p]
                              ELSE s.table[p]],
                   !.selected = {}]
    ELSE s

\* batch_rate(set_rating): the rating upsert for every selected path.
batch_rate(s, val) ==
    IF 1 <= val /\ val <= num_classes
    THEN [s EXCEPT !.table =
            [p \in Images |-> IF p \in s.selected THEN save_rating(s.table, p, val)[p]
                              ELSE s.table[p]]]
    ELSE s

\* The marked upsert of batch_mark for one path.
save_marked(t, p, flag) ==
    IF t[p] # <<>>
    THEN [t EXCEPT ![p][1].marked = flag]
    ELSE [t EXCEPT ![p] = <<[rating |-> 0, marked |-> flag]>>]

\* batch_mark(action)
batch_mark(s, flag) ==
    [s EXCEPT !.table =
        [p \in Images |-> IF p \in s.selected THEN save_marked(s.table, p, flag)[p]
                          ELSE s.table[p]]]


\* ------------------------------------------------------ the state machine
\* A second folder under data/, annotated in an earlier session: it holds all
\* images but the last, and its first image is rated 1.
AnnotatedFolder ==
    [files |-> Images \ {NumImages},
     table |-> [p \in Images |-> IF p = 1 THEN <<[rating |-> 1, marked |-> FALSE]>>
                                 ELSE <<>>]]

\* The worker threads that run the handlers, and a thread with no request.
Workers == {1, 2}
NoRequest ==
    [pc |-> "idle", rating |-> 0, current_image |-> None, old_annotation |-> 0,
     existing |-> FALSE]

\* No navigate call in progress.
NoScan ==
    [pc |-> "idle", version |-> "none", direction |-> 0, start |-> 0, new_index |-> 0,
     attempts |-> 0, result |-> FALSE]

\* state = AppState() on a fresh folder: every image on disk, an empty table,
\* current_index = find_first_unannotated() = 0.
Init ==
    /\ current_index = 0
    /\ filter_unannotated = FALSE
    /\ filter_rating = NoFilter
    /\ history = <<>>
    /\ selected = {}
    /\ last_anchor = None
    /\ files = Images
    /\ table = [p \in Images |-> <<>>]
    /\ other_folder = AnnotatedFolder
    /\ requests = [t \in Workers |-> NoRequest]
    /\ scan = NoScan

\* The fields of the session become those of s.
SessionBecomes(s) ==
    /\ current_index' = s.current_index
    /\ filter_unannotated' = s.filter_unannotated
    /\ filter_rating' = s.filter_rating
    /\ history' = s.history
    /\ selected' = s.selected
    /\ last_anchor' = s.last_anchor
    /\ files' = s.files
    /\ table' = s.table

\* The request leaves the session in state s, in the folder it was in; it is
\* handled from start to end with no other request or call in progress.
Becomes(s) ==
    /\ SessionBecomes(s)
    /\ UNCHANGED <<other_folder, requests, scan>>

RatingInputs == 0..(num_classes + 1)
FilterInputs == {NoFilter, Malformed} \cup RatingInputs

\* The (rating, show, marked, sort) parameters a browse request carries.
BrowseRequests ==
    [q : {""}, rating_val : {NoFilter}, show : ShowModes, marked_only : {FALSE},
     sort : {"name", "rating_desc", "marked_first"}]

\* The browse orderings a toggle_select request can be made against.
BrowseOrders(s) ==
    {filtered_items(s, b.q, b.rating_val, b.show, b.marked_only, b.sort) :
        b \in BrowseRequests}

\* The paths a browse page has shown: on disk now, or deleted in this session.
ShownImages(s) ==
    s.files \cup s.selected \cup {s.history[k].image_name : k \in 1..Len(s.history)}

Rate == \E r \in RatingInputs : Becomes(rate(St, r))
RateAndNext == \E r \in RatingInputs : Becomes(rate_and_next(St, r))
Prev == Becomes(prev(St))
NextImage == Becomes(next(St))
Mark == Becomes(mark(St))
Delete == \E unlink_ok \in BOOLEAN : Becomes(delete(St, unlink_ok))
Undo == \E restore_ok \in BOOLEAN : Becomes(undo(St, restore_ok))
ToggleFilter == Becomes(toggle_filter(St))
FilterRating == \E v \in FilterInputs : Becomes(set_filter_rating(St, v))
AnnotateImage == \E p \in Images : Becomes(annotate_image(St, p))
OpenFirstSelected == Becomes(open_first_selected(St))
ToggleSelect ==
    \E image \in ShownImages(St) :
        \/ Becomes(toggle_select(St, image, FALSE, <<>>))
        \/ \E order \in BrowseOrders(St) : Becomes(toggle_select(St, image, TRUE, order))
ClearSelection == Becomes(clear_selection(St))
BatchRate == \E val \in RatingInputs : Becomes(batch_rate(St, val))
BatchMark == \E flag \in BOOLEAN : Becomes(batch_mark(St, flag))

\* Every combination of the parameters of /browse and /browse_grid.
BrowseQueries ==
    [q : Queries, rating_val : {NoFilter} \cup RatingInputs, show : ShowModes,
     marked_only : BOOLEAN, sort : SortModes]

\* The page parameter: a number from 0 to one page beyond the largest result,
\* or a malformed string.
PageInputs == {Malformed} \cup (0..((NumImages + per_page - 1) \div per_page + 1))

Browse ==
    \E b \in BrowseQueries, page \in PageInputs :
        Becomes(browse(St, b.q, b.rating_val, b.show, b.marked_only, b.sort, page))

\* A restart; while the tool is stopped files can be renamed or removed on
\* disk.
Restart == \E on_disk \in SUBSET files : Becomes(restart(St, on_disk))

\* ----------------------------------------------- rate in worker threads
\* rate is a plain def: the server runs it in a worker thread, main.py takes no
\* lock around the session or the table, and two requests interleave between
\* the statements of the handler.  Each action below is one statement of rate
\* run by worker t; requests[t] holds the position and the locals of the call.
RequestStep(t, s, req) ==
    /\ SessionBecomes(s)
    /\ requests' = [requests EXCEPT ![t] = req]
    /\ UNCHANGED <<other_folder, scan>>

\* A POST /rate/{rating} reaches worker t; the range check on the rating.
RateReceive ==
    \E t \in Workers :
        \E rating \in RatingInputs :
            /\ requests[t].pc = "idle"
            /\ RequestStep(t, St,
                   [requests[t] EXCEPT
                       !.rating = rating,
                       !.pc = IF rating < 1 \/ rating > num_classes
                              THEN "index" ELSE "get_current_image"])

\* current_image = get_current_image()
RateCurrentImage ==
    \E t \in Workers :
        LET r == get_current_image(St)
        IN /\ requests[t].pc = "get_current_image"
           /\ RequestStep(t,
                  IF r.exc THEN St ELSE [St EXCEPT !.current_index = r.idx],
                  [requests[t] EXCEPT
                      !.current_image = r.img,
                      !.pc = IF r.exc THEN "done"
                             ELSE IF r.img # None THEN "get_annotation_for_image"
                             ELSE "index"])

\* old_annotation = get_annotation_for_image(str(current_image))['rating']
RateOldAnnotation ==
    \E t \in Workers :
        /\ requests[t].pc = "get_annotation_for_image"
        /\ RequestStep(t, St,
               [requests[t] EXCEPT
                   !.old_annotation =
                       get_annotation_for_image(St, requests[t].current_image).rating,
                   !.pc = "history"])

\* state.history.append({...}) and the max_history truncation.
RateHistory ==
    \E t \in Workers :
        /\ requests[t].pc = "history"
        /\ RequestStep(t,
               [St EXCEPT !.history = add_to_history(@,
                   HistoryEntry(requests[t].current_image, requests[t].old_annotation,
                                current_index, "rate"))],
               [requests[t] EXCEPT !.pc = "existing"])

\* existing = annotations("image_path=?", (str(current_image),), limit=1)
RateExisting ==
    \E t \in Workers :
        /\ requests[t].pc = "existing"
        /\ RequestStep(t, St,
               [requests[t] EXCEPT
                   !.existing = (table[requests[t].current_image] # <<>>),
                   !.pc = "save"])

\* annotations.update({'rating': rating, ...}, existing[0].id) if existing,
\* else annotations.insert({..., 'rating': rating, 'marked': False}).
RateSave ==
    \E t \in Workers :
        LET img == requests[t].current_image
        IN /\ requests[t].pc = "save"
           /\ requests[t].existing => table[img] # <<>>
           /\ RequestStep(t,
                  [St EXCEPT !.table =
                      IF requests[t].existing
                      THEN [@ EXCEPT ![img][1].rating = requests[t].rating]
                      ELSE insert_row(@, img, requests[t].rating, FALSE)],
                  [requests[t] EXCEPT !.pc = "index"])

\* return index()
RateIndex ==
    \E t \in Workers :
        /\ requests[t].pc = "index"
        /\ RequestStep(t, index(St), [requests[t] EXCEPT !.pc = "done"])

\* ------------------------------------------- navigate, step by step
\* The loops of navigate (main.py) and of AppState.navigate (models.py), one
\* iteration per action.  scan holds the position and the locals of the call:
\* direction, new_index, attempts, the cursor before the call (the caller's
\* original_index) and the value returned.
ScanStep(s, sc) ==
    /\ SessionBecomes(s)
    /\ scan' = sc
    /\ UNCHANGED <<other_folder, requests>>

\* The callers pass 1 or -1.
Directions == {-1, 1}

\* main.py navigate(direction) up to the while loop; the unfiltered branch
\* returns at once.
MainNavigate ==
    \E direction \in Directions :
        LET call == [pc |-> "loop", version |-> "main", direction |-> direction,
                     start |-> current_index, new_index |-> current_index,
                     attempts |-> 0, result |-> FALSE]
        IN /\ scan.pc = "idle"
           /\ IF FilterActive(St)
              THEN ScanStep(St, call)
              ELSE ScanStep(navigate(St, direction), [call EXCEPT !.pc = "returned"])

\* One evaluation of `while attempts < max_attempts` and of the loop body.
MainLoop ==
    LET n == Len(get_image_files(St))
        new_index == scan.new_index + scan.direction
    IN /\ scan.pc = "loop"
       /\ scan.version = "main"
       /\ IF ~(scan.attempts < n)
          THEN ScanStep(St, [scan EXCEPT !.pc = "returned"])
          ELSE IF ~(0 <= new_index /\ new_index < n)
          THEN ScanStep(St, [scan EXCEPT !.new_index = new_index, !.pc = "returned"])
          ELSE IF Matches(St, ImageAt(St, new_index))
          THEN ScanStep([St EXCEPT !.current_index = new_index],
                        [scan EXCEPT !.new_index = new_index, !.pc = "returned"])
          ELSE ScanStep(St, [scan EXCEPT !.new_index = new_index,
                                         !.attempts = @ + 1])

\* models.py AppState.navigate(direction) up to `while True`; the unfiltered
\* branch returns at once.  AppState keeps current_index inside image_files,
\* or at 0 when there are none, and has the unannotated filter only.
ModelsNavigate ==
    \E direction \in Directions :
        LET n == Len(get_image_files(St))
            new_index == current_index + direction
            call == [pc |-> "loop", version |-> "models", direction |-> direction,
                     start |-> current_index, new_index |-> current_index,
                     attempts |-> 0, result |-> FALSE]
        IN /\ scan.pc = "idle"
           /\ filter_rating = NoFilter
           /\ current_index < n \/ current_index = 0
           /\ IF filter_unannotated
              THEN ScanStep(St, call)
              ELSE IF 0 <= new_index /\ new_index < n
              THEN ScanStep([St EXCEPT !.current_index = new_index],
                            [call EXCEPT !.pc = "returned", !.new_index = new_index,
                                         !.result = TRUE])
              ELSE ScanStep(St, [call EXCEPT !.pc = "returned", !.new_index = new_index])

\* Mutant of ModelsLoop: the scan wraps around the ends of image_files
\* instead of returning False there.
ModelsLoopWrapping ==
    LET n == Len(get_image_files(St))
        new_index == IF n = 0 THEN 0 ELSE (scan.new_index + scan.direction + n) % n
    IN /\ scan.pc = "loop"
       /\ scan.version = "models"
       /\ IF n = 0
          THEN ScanStep(St, [scan EXCEPT !.pc = "returned"])
          ELSE IF ImageAt(St, new_index) \notin annotated_images(St)
          THEN ScanStep([St EXCEPT !.current_index = new_index],
                        [scan EXCEPT !.new_index = new_index, !.pc = "returned",
                                     !.result = TRUE])
          ELSE IF Abs(new_index - current_index) >= n
          THEN ScanStep(St, [scan EXCEPT !.new_index = new_index, !.pc = "returned"])
          ELSE ScanStep(St, [scan EXCEPT !.new_index = new_index])

\* One iteration of `while True` in AppState.navigate.
ModelsLoop ==
    LET n == Len(get_image_files(St))
        new_index == scan.new_index + scan.direction
    IN /\ scan.pc = "loop"
       /\ scan.version = "models"
       /\ IF ~(0 <= new_index /\ new_index < n)
          THEN ScanStep(St, [scan EXCEPT !.new_index = new_index, !.pc = "returned"])
          ELSE IF ImageAt(St, new_index) \notin annotated_images(St)
          THEN ScanStep([St EXCEPT !.current_index = new_index],
                        [scan EXCEPT !.new_index = new_index, !.pc = "returned",
                                     !.result = TRUE])
          ELSE IF Abs(new_index - current_index) >= n
          THEN ScanStep(St, [scan EXCEPT !.new_index = new_index, !.pc = "returned"])
          ELSE ScanStep(St, [scan EXCEPT !.new_index = new_index])

\* The call has returned and the caller goes on.
NavigateReturn ==
    /\ scan.pc = "returned"
    /\ ScanStep(St, NoScan)

\* The folder the session is in, as it is left on disk.
ThisFolder == [files |-> files, table |-> table]

\* switch_folder_endpoint with an unknown name, the name of the folder the
\* session is in, or the name of the other folder.
SwitchFolder ==
    \/ Becomes(switch_folder_endpoint(St, FALSE, ThisFolder))
    \/ Becomes(switch_folder_endpoint(St, TRUE, ThisFolder))
    \/ LET s == switch_folder_endpoint(St, TRUE, other_folder)
       IN /\ other_folder' = ThisFolder
          /\ SessionBecomes(s)
          /\ UNCHANGED <<requests, scan>>

\* The annotator without filters: rate, mark, delete, undo, step and jump.
Next ==
    \/ Rate \/ RateAndNext \/ Prev \/ NextImage \/ Mark \/ Delete \/ Undo
    \/ AnnotateImage

Spec == Init /\ [][Next]_vars

\* The annotator with the Unannotated and Rating filters.
NextFilter ==
    \/ Rate \/ Prev \/ NextImage \/ Delete \/ Undo \/ ToggleFilter \/ FilterRating

SpecFilter == Init /\ [][NextFilter]_vars

\* The browser's selection and batch edits next to the annotator, on a folder
\* that holds all images but the last.
InitSel ==
    /\ current_index = 0
    /\ filter_unannotated = FALSE
    /\ filter_rating = NoFilter
    /\ history = <<>>
    /\ selected = {}
    /\ last_anchor = None
    /\ files = Images \ {NumImages}
    /\ table = [p \in Images |-> <<>>]
    /\ other_folder = AnnotatedFolder
    /\ requests = [t \in Workers |-> NoRequest]
    /\ scan = NoScan

NextSel ==
    \/ Rate \/ RateAndNext \/ Mark
    \/ ToggleSelect \/ ClearSelection \/ BatchRate \/ BatchMark \/ OpenFirstSelected

SpecSel == InitSel /\ [][NextSel]_vars

\* Deleting and restoring images that are selected in the browser.
NextOrphan ==
    \/ Delete \/ Undo \/ ToggleSelect \/ ClearSelection \/ BatchRate

SpecOrphan == Init /\ [][NextOrphan]_vars

\* Marking next to rating under the Unannotated filter.
NextMark ==
    \/ Rate \/ Mark \/ Prev \/ NextImage \/ ToggleFilter

SpecMark == Init /\ [][NextMark]_vars

\* Switching between the two folders with filters in use.
NextFolder ==
    \/ Rate \/ NextImage \/ ToggleFilter \/ FilterRating \/ SwitchFolder

SpecFolder == Init /\ [][NextFolder]_vars

\* Batch rating from the browser while the annotator has a filter on, on the
\* folder without the last image.
NextBatchFilter ==
    \/ Rate \/ NextImage \/ Delete \/ ToggleFilter \/ FilterRating
    \/ ToggleSelect \/ BatchRate

SpecBatchFilter == InitSel /\ [][NextBatchFilter]_vars

\* The browser on its own: selecting, batch edits and the grid requests.
NextBrowse ==
    \/ ToggleSelect \/ ClearSelection \/ BatchRate \/ BatchMark \/ Browse

SpecBrowse == Init /\ [][NextBrowse]_vars

\* Batch edits between the annotator's ratings, deletions and undos, on the
\* folder without the last image.
NextBatchUndo ==
    \/ Rate \/ Delete \/ Undo \/ ToggleSelect \/ BatchRate \/ BatchMark

SpecBatchUndo == InitSel /\ [][NextBatchUndo]_vars

\* A session with a selection, a filter and an undo log that moves between the
\* two folders.
NextSession ==
    \/ Rate \/ Delete \/ ToggleFilter \/ ToggleSelect \/ SwitchFolder

SpecSession == InitSel /\ [][NextSession]_vars

\* Any catalog, any table with at most one record per image, any cursor up to
\* the number of images and any filter, before a navigate call.
InitScan ==
    /\ current_index \in 0..NumImages
    /\ filter_unannotated \in BOOLEAN
    /\ filter_rating \in {NoFilter} \cup Ratings
    /\ ~(filter_unannotated /\ filter_rating # NoFilter)
    /\ history = <<>>
    /\ selected = {}
    /\ last_anchor = None
    /\ files \in SUBSET Images
    /\ table \in [Images -> {<<>>} \cup {<<[rating |-> r, marked |-> FALSE]>> : r \in Ratings}]
    /\ other_folder = AnnotatedFolder
    /\ requests = [t \in Workers |-> NoRequest]
    /\ scan = NoScan

NextScan ==
    \/ MainNavigate \/ MainLoop \/ ModelsNavigate \/ ModelsLoop \/ NavigateReturn

SpecScan == InitScan /\ [][NextScan]_vars

\* A call that is in a loop goes on running, and a call that has returned is
\* left.
SpecScanLive ==
    SpecScan /\ WF_vars(MainLoop) /\ WF_vars(ModelsLoop) /\ WF_vars(NavigateReturn)

\* Two rate requests handled by two worker threads, statement by statement.
NextConcurrent ==
    \/ RateReceive \/ RateCurrentImage \/ RateOldAnnotation \/ RateHistory
    \/ RateExisting \/ RateSave \/ RateIndex

SpecConcurrent == Init /\ [][NextConcurrent]_vars

\* Deleting, restoring and batch rating selected images, with restarts of the
\* tool between them, on the folder without the last image.
NextCleanup ==
    \/ Delete \/ Undo \/ ToggleSelect \/ BatchRate \/ Restart

SpecCleanup == InitSel /\ [][NextCleanup]_vars

\* Every handler that writes a rating or a record, on the folder without the
\* last image.
NextRatings ==
    \/ Rate \/ RateAndNext \/ Mark \/ Delete \/ Undo
    \/ ToggleSelect \/ BatchRate \/ BatchMark

SpecRatings == InitSel /\ [][NextRatings]_vars


\* ================================================================ claims
\* The annotation of an image as a request sees it: rating and marked flag of its
\* first row, (0, FALSE) when it has none.
AnnOf(s, p) == get_annotation_for_image(s, p)

\* The request that led from St to St' rated the current image with r.
RateStep(r) ==
    /\ get_current_image(St).img # None
    /\ ~get_current_image(St).exc
    /\ (St' = rate(St, r) \/ St' = rate_and_next(St, r))

\* The request that led from St to St' deleted the current image.
DeleteStep ==
    /\ get_current_image(St).img # None
    /\ ~get_current_image(St).exc
    /\ St' = delete(St, TRUE)

\* C1: rating the current image with a valid r (rate or rate_and_next) and then
\* calling undo() leaves that image's rating and marked flag as they were just
\* before the rate call (no record counting as rating 0, not marked).
C1_RateUndoRoundTrip ==
    [][\A r \in Ratings :
        RateStep(r) =>
            LET img == get_current_image(St).img
            IN AnnOf(undo(St', TRUE), img) = AnnOf(St, img)]_vars

\* C2: the annotation table holds at most one record per image path.
C2_OneRecordPerImage == \A p \in Images : Len(table[p]) <= 1

\* C3: the undo log never holds more than max_history entries, and a rate,
\* rate_and_next or delete that records an entry on a full log drops exactly the
\* oldest entry, keeps the others in order and puts the new entry last.
Pushed(h, h2) ==
    /\ Len(h2) = Min(Len(h) + 1, max_history)
    /\ \A k \in 1..(Len(h2) - 1) :
        h2[k] = h[k + (IF Len(h) = max_history THEN 1 ELSE 0)]

C3_HistoryBounded ==
    [][/\ Len(history') <= max_history
       /\ (DeleteStep \/ \E r \in Ratings : RateStep(r)) =>
            /\ Pushed(history, history')
            /\ history'[Len(history')].image_name = get_current_image(St).img
            /\ history'[Len(history')].action =
                    (IF DeleteStep THEN "delete" ELSE "rate")]_vars

\* C3 witness: the log is full, its entries differ, and rating the current image
\* evicts the oldest one.
C3_Witness ==
    /\ Len(history) = max_history
    /\ history[1] # history[2]
    /\ get_current_image(St).img # None
    /\ rate(St, 1).history # history
    /\ rate(St, 1).history[1] = history[2]

\* C4: at the end of every request, a non-empty catalog has
\* 0 <= current_index <= len(catalog) - 1.
C4_IndexInBounds ==
    files # {} => (0 <= current_index /\ current_index <= Cardinality(files) - 1)

\* C5: deleting the current image and then undo() with a successful restore puts
\* the image back at its former catalog position, recreates its record with the
\* prior rating when that was > 0 (no record when it was 0), and sets
\* current_index to the image's former position.
C5_DeleteUndoRestores ==
    [][DeleteStep =>
        LET img == get_current_image(St).img
            old == AnnOf(St, img).rating
            u == undo(St', TRUE)
        IN /\ u.files = files
           /\ index_of_image(u, img) = index_of_image(St, img)
           /\ (old > 0 => AnnOf(u, img).rating = old)
           /\ (old = 0 => u.table[img] = <<>>)
           /\ u.current_index = index_of_image(St, img)]_vars


\* The request that led from St to St' was undo().
UndoStep == \E restore_ok \in BOOLEAN : St' = undo(St, restore_ok)

\* The newest undo entry.
Newest == history[Len(history)]

\* What undo() does to the log and to the other images' records; on an empty
\* log it changes nothing.
UndoPopsNewest ==
    /\ history # <<>> =>
        /\ history' = SubSeq(history, 1, Len(history) - 1)
        /\ \A p \in Images \ {Newest.image_name} : table'[p] = table[p]
    /\ history = <<>> =>
        /\ table' = table
        /\ current_index' = current_index
        /\ history' = history

C8_RatingAndMarkedIndependent ==
    [][/\ (\E r \in RatingInputs :
                \/ St' = rate(St, r)
                \/ St' = rate_and_next(St, r)
                \/ St' = batch_rate(St, r))
            => \A p \in Images : AnnOf(St', p).marked = AnnOf(St, p).marked
       /\ (St' = mark(St) \/ \E flag \in BOOLEAN : St' = batch_mark(St, flag))
            => \A p \in Images : AnnOf(St', p).rating = AnnOf(St, p).rating]_vars

\* C8 witness: the current image is marked and rated and is selected together
\* with an unmarked image; rating it again keeps the mark, a batch rating keeps
\* both flags, and a batch unmark keeps the ratings.
C8_Witness ==
    LET img == get_current_image(St).img
    IN /\ img # None
       /\ AnnOf(St, img) = [rating |-> 1, marked |-> TRUE]
       /\ img \in selected
       /\ \E p \in selected : ~AnnOf(St, p).marked /\ AnnOf(St, p).rating = 1
       /\ AnnOf(rate(St, 2), img) = [rating |-> 2, marked |-> TRUE]
       /\ AnnOf(batch_rate(St, 2), img) = [rating |-> 2, marked |-> TRUE]
       /\ AnnOf(batch_mark(St, FALSE), img) = [rating |-> 1, marked |-> FALSE]

\* C9: with no filter and a non-empty catalog, navigate(d) moves current_index by
\* d when the result stays in [0, len-1] and leaves it unchanged otherwise (no
\* wrap), so navigate(+1) then navigate(-1) returns to the original index unless
\* the cursor started on the last position.
C9_NavigateNoWrap ==
    (~FilterActive(St) /\ files # {}) =>
        LET n == Cardinality(files)
            InRange(i) == 0 <= i /\ i <= n - 1
        IN /\ \A d \in {-1, 1} :
                navigate(St, d).current_index =
                    (IF InRange(current_index + d) THEN current_index + d
                     ELSE current_index)
           /\ current_index # n - 1 =>
                navigate(navigate(St, 1), -1).current_index = current_index
           /\ next(St).current_index = navigate(St, 1).current_index
           /\ prev(St).current_index = navigate(St, -1).current_index

\* C9 witness: the cursor is in the middle of a catalog of three images, so
\* that both directions move and the round trip comes back.
C9_Witness ==
    /\ ~FilterActive(St)
    /\ Cardinality(files) = 3
    /\ current_index = 1
    /\ history # <<>>
    /\ navigate(St, 1).current_index = 2
    /\ navigate(navigate(St, 1), -1).current_index = 1

\* C10: under the Unannotated or a Rating filter, navigate(d) sets current_index
\* to the nearest position strictly beyond it in direction d whose image
\* satisfies the filter; when there is none before the catalog end, the index
\* stays and nothing wraps around.
C10_FilteredNavigateNearest ==
    FilterActive(St) =>
        \A d \in {-1, 1} :
            LET n == Cardinality(files)
                beyond == {i \in 0..(n - 1) :
                            /\ (i - current_index) * d > 0
                            /\ Matches(St, ImageAt(St, i))}
                nearest == CHOOSE i \in beyond :
                            \A j \in beyond : (i - current_index) * d <= (j - current_index) * d
            IN navigate(St, d).current_index =
                    (IF beyond = {} THEN current_index ELSE nearest)

\* C10 witness: under a filter the cursor is on the first of three images, the
\* second does not match and the third does, so navigate(+1) skips one image;
\* from the third position navigate(+1) finds nothing and stays.
C10_Witness ==
    /\ FilterActive(St)
    /\ Cardinality(files) = 3
    /\ current_index = 0
    /\ ~Matches(St, ImageAt(St, 1))
    /\ Matches(St, ImageAt(St, 2))
    /\ navigate(St, 1).current_index = 2
    /\ navigate(navigate(St, 1), 1).current_index = 2

\* The session with the cursor put on position i.
CursorAt(i) == [St EXCEPT !.current_index = i]

\* C11: under the Unannotated filter an image matches exactly when it has no
\* rated annotation (no record, or a record with rating 0): with the cursor on
\* its position current_image() returns it, and navigate(+1) from the position
\* before lands on it, exactly when its rating is 0; a marked, unrated image is
\* still visited.
C11_UnannotatedMeansUnrated ==
    filter_unannotated =>
        \A i \in 0..(Cardinality(files) - 1) :
            LET p == ImageAt(St, i)
            IN /\ (get_current_image(CursorAt(i)).img = p) <=> (AnnOf(St, p).rating = 0)
               /\ i > 0 =>
                    ((navigate(CursorAt(i - 1), 1).current_index = i)
                        <=> (AnnOf(St, p).rating = 0))

\* Some catalog image satisfies the active filter.
SomeMatch == \E p \in files : Matches(St, p)

\* C12: whenever a filter is active, the image current_image() reports
\* satisfies it (no rating > 0 under Unannotated, stored rating exactly r under
\* Rating(r)), and when no catalog image satisfies the filter current_image()
\* reports no current image.
C12_CurrentImageSatisfiesFilter ==
    FilterActive(St) =>
        LET r == get_current_image(St)
        IN /\ r.img # None =>
                /\ r.img \in files
                /\ filter_unannotated => AnnOf(St, r.img).rating = 0
                /\ filter_rating # NoFilter => AnnOf(St, r.img).rating = filter_rating
           /\ ~SomeMatch => (r.img = None /\ ~r.exc)

\* C13: the Unannotated filter and a Rating filter are never active together:
\* in every reachable state filter_unannotated is false or filter_rating is
\* None, whatever the order of toggle_filter, filter_rating and switch_folder.
C13_FiltersExclusive == ~filter_unannotated \/ filter_rating = NoFilter

\* C13 witness: after a folder switch a Rating filter is active; toggle_filter
\* turns Unannotated on and clears it, and filter_rating then turns Unannotated
\* off again.
C13_Witness ==
    /\ other_folder # AnnotatedFolder
    /\ filter_rating \in Ratings
    /\ toggle_filter(St).filter_unannotated
    /\ toggle_filter(St).filter_rating = NoFilter
    /\ set_filter_rating(toggle_filter(St), 1).filter_rating = 1
    /\ ~set_filter_rating(toggle_filter(St), 1).filter_unannotated

\* The sessions set_filter(f) can lead to from the current one, for f =
\* Unannotated (toggle_filter while it is off) and f = Rating(r), r in 1..N.
SetFilterResults ==
    (IF filter_unannotated THEN {} ELSE {toggle_filter(St)})
        \cup {set_filter_rating(St, v) : v \in Ratings}

\* The cursor of session s rests on a catalog image that satisfies its filter.
OnMatch(s) ==
    /\ 0 <= s.current_index
    /\ s.current_index < Cardinality(s.files)
    /\ Matches(s, ImageAt(s, s.current_index))

FailedDeleteKeeps(s2) ==
    /\ s2.table = table
    /\ s2.files = files
    /\ s2.history = history
    /\ s2.selected = selected
    /\ s2.last_anchor = last_anchor

C16_FailedRestoreConsumedAndReported ==
    (history # <<>> /\ Newest.action = "delete") =>
        /\ undo(St, FALSE).history = SubSeq(history, 1, Len(history) - 1)
        /\ undo_response(St, FALSE) # undo_response(St, TRUE)

\* The ratings a request can carry that are outside 1..N.
InvalidRatings == RatingInputs \ Ratings

\* The sessions a request with the rejected rating r can lead to.
RejectedResults(r) == {rate(St, r), rate_and_next(St, r), batch_rate(St, r)}

\* A rejected rating changes no record, adds no undo entry and leaves the
\* selection; in the CSV variant save_annotation returns False and keeps the
\* annotations.
RejectedKeeps(r) ==
    /\ \A s2 \in RejectedResults(r) :
            /\ s2.table = table
            /\ s2.files = files
            /\ s2.history = history
            /\ s2.selected = selected
            /\ s2.last_anchor = last_anchor
    /\ LET csv == [p \in Images |-> AnnOf(St, p).rating]
       IN \A p \in Images, w \in BOOLEAN :
            save_annotation(csv, p, r, w) = [ok |-> FALSE, annotations |-> csv]

\* C17 as stated: rate(r), rate_and_next(r) and batch_rate(r) with r < 1 or
\* r > N change no annotation record, add no undo entry, and leave the cursor
\* and the selection unchanged.
C17_InvalidRatingNoOp ==
    \A r \in InvalidRatings :
        /\ RejectedKeeps(r)
        /\ \A s2 \in RejectedResults(r) : s2.current_index = current_index

\* The image under the cursor is the one a load of the page shows.
CursorFresh ==
    \/ files = {}
    \/ ~FilterActive(St)
    \/ /\ current_index < Cardinality(files)
       /\ Matches(St, ImageAt(St, current_index))

\* C17 amended: a rejected rating changes no annotation record, adds no undo
\* entry and leaves the selection; batch_rate leaves the cursor, and rate and
\* rate_and_next leave it where a load of the page puts it: unchanged, unless a
\* batch edit had taken the image under the cursor out of the active filter.
C17_InvalidRatingOnlyRenders ==
    \A r \in InvalidRatings :
        /\ RejectedKeeps(r)
        /\ batch_rate(St, r).current_index = current_index
        /\ rate(St, r).current_index = index(St).current_index
        /\ rate_and_next(St, r).current_index = index(St).current_index
        /\ CursorFresh => index(St).current_index = current_index

\* C17 witness: the current image is rated and selected and the log has an
\* entry; a valid rating changes the record, through rate and through
\* batch_rate, and the ratings 0 and N+1 change nothing.
C17_Witness ==
    LET img == get_current_image(St).img
    IN /\ img # None
       /\ AnnOf(St, img).rating = 1
       /\ img \in selected
       /\ history # <<>>
       /\ AnnOf(rate(St, 2), img).rating = 2
       /\ AnnOf(batch_rate(St, 2), img).rating = 2
       /\ rate(St, 0) = St
       /\ rate_and_next(St, num_classes + 1) = St
       /\ batch_rate(St, 0) = St

\* The filter values a request can carry that are not a rating in 1..N: 0,
\* N+1 and a malformed string.
InvalidFilterValues == FilterInputs \ ({NoFilter} \cup Ratings)

\* C18: a filter value that is not a rating in 1..N is rejected by the
\* rating-filter operation: the active filter and current_index stay exactly
\* as they were before the call.
C18_InvalidFilterRejected ==
    [][\A v \in InvalidFilterValues :
        St' = set_filter_rating(St, v) =>
            /\ filter_rating' = filter_rating
            /\ filter_unannotated' = filter_unannotated
            /\ current_index' = current_index]_vars

\* The request that led from St to St' was mark() on a current image.
MarkStep ==
    /\ get_current_image(St).img # None
    /\ ~get_current_image(St).exc
    /\ St' = mark(St)

\* C19 as stated: a mark/unmark of the current image is an entry of the undo
\* log: after mark() has toggled the image's marked flag, the next undo()
\* restores the flag to its value before the toggle.
C19_MarkUndoRoundTrip ==
    [][MarkStep =>
        LET img == get_current_image(St).img
        IN AnnOf(undo(St', TRUE), img).marked = AnnOf(St, img).marked]_vars

\* C19 amended: mark() is outside the undo log: it toggles the marked flag of
\* the current image, keeps its rating and every other image's record, and
\* adds no undo entry, so the next undo() pops the entry it would have popped
\* without the mark.
C19_MarkNotInUndoLog ==
    [][MarkStep =>
        LET img == get_current_image(St).img
        IN /\ AnnOf(St', img).marked = ~AnnOf(St, img).marked
           /\ AnnOf(St', img).rating = AnnOf(St, img).rating
           /\ \A p \in Images \ {img} : table'[p] = table[p]
           /\ history' = history
           /\ undo(St', TRUE).history = undo(St, TRUE).history]_vars

\* C19 witness: the current image is marked and the newest undo entry is for
\* another image; mark() unmarks the image and the undo() that follows pops
\* that entry and leaves the image unmarked.
C19_Witness ==
    LET img == get_current_image(St).img
    IN /\ img # None
       /\ AnnOf(St, img).marked
       /\ history # <<>>
       /\ Newest.image_name # img
       /\ ~AnnOf(mark(St), img).marked
       /\ mark(St).history = history
       /\ ~AnnOf(undo(mark(St), TRUE), img).marked
       /\ undo(mark(St), TRUE).history = SubSeq(history, 1, Len(history) - 1)

\* The images of a browse ordering, and those between a and b in it, both
\* endpoints included.
ItemsOf(order) == {order[k] : k \in 1..Len(order)}

Between(order, a, b) ==
    LET pos(x) == CHOOSE k \in 1..Len(order) : order[k] = x
    IN {x \in ItemsOf(order) :
            \/ pos(a) <= pos(x) /\ pos(x) <= pos(b)
            \/ pos(b) <= pos(x) /\ pos(x) <= pos(a)}

\* range_select(a, ordering) followed by range_select(b, ordering).
RangeSelectTwice(order, a, b) ==
    toggle_select(toggle_select(St, a, TRUE, order), b, TRUE, order)

\* C20: from an empty selection with no anchor, range_select(a, ordering)
\* followed by range_select(b, ordering), a and b both in ordering, leaves
\* exactly the images between a and b in ordering selected, both endpoints
\* included and whichever comes first, and the anchor is then b.
C20_RangeSelectClosedInterval ==
    (selected = {} /\ last_anchor = None) =>
        \A order \in BrowseOrders(St) :
            \A a, b \in ItemsOf(order) :
                /\ RangeSelectTwice(order, a, b).selected = Between(order, a, b)
                /\ RangeSelectTwice(order, a, b).last_anchor = b

\* C20 witness: no selection and no anchor, and a browse ordering of three
\* images that is not the catalog order: from its last to its first item the
\* whole ordering is selected, from its first to its second item only these
\* two, and they are not neighbours in the catalog.
C20_Witness ==
    /\ selected = {}
    /\ last_anchor = None
    /\ \E order \in BrowseOrders(St) :
            /\ Len(order) = 3
            /\ order[1] = 1
            /\ order[2] = 3
            /\ RangeSelectTwice(order, order[3], order[1]).selected = {1, 2, 3}
            /\ RangeSelectTwice(order, order[3], order[1]).last_anchor = 1
            /\ RangeSelectTwice(order, order[1], order[2]).selected = {1, 3}
            /\ RangeSelectTwice(order, order[2], order[2]).selected = {3}

\* The session s with its selection set and anchor replaced.
WithSelection(s, sel, anchor) == [s EXCEPT !.selected = sel, !.last_anchor = anchor]

\* The selection set after the membership of image alone flipped.
Flipped(sel, image) ==
    {x \in Images : IF x = image THEN x \notin sel ELSE x \in sel}

\* C21: range_select(image, ordering) with the anchor or the image absent from
\* the browse ordering of the request (the anchor filtered out or deleted, or
\* no anchor at all) behaves exactly as toggle(image): only the membership of
\* image flips, the anchor becomes image, and nothing else of the session
\* changes.
C21_RangeSelectFallsBackToToggle ==
    \A image \in Images :
        \A order \in BrowseOrders(St) :
            (last_anchor \notin ItemsOf(order) \/ image \notin ItemsOf(order)) =>
                toggle_select(St, image, TRUE, order)
                    = WithSelection(St, Flipped(selected, image), image)

\* C21 witness: the anchor was deleted from the folder, other images are
\* selected, and a shift-click on a selected image of a browse ordering of two
\* images removes that image alone, where the range from an anchor still in
\* the ordering would have removed nothing.
C21_Witness ==
    /\ last_anchor # None
    /\ last_anchor \notin files
    /\ Cardinality(selected) >= 2
    /\ \E order \in BrowseOrders(St) :
        \E image \in ItemsOf(order) \cap selected :
            /\ Len(order) = 2
            /\ last_anchor \notin ItemsOf(order)
            /\ toggle_select(St, image, TRUE, order).selected = selected \ {image}
            /\ toggle_select(St, image, TRUE, order).last_anchor = image

\* toggle(image): a click without shift.
Toggle(s, image) == toggle_select(s, image, FALSE, <<>>)

\* C22: toggle(image) flips the membership of image, leaves every other image
\* of the selection as it was and sets the anchor to image, also when it
\* removed image; two consecutive toggles of the same image restore the
\* selection set.
C22_ToggleFlipsAndSetsAnchor ==
    \A image \in Images :
        /\ (image \in Toggle(St, image).selected) <=> (image \notin selected)
        /\ Toggle(St, image).selected \ {image} = selected \ {image}
        /\ Toggle(St, image).last_anchor = image
        /\ Toggle(St, image) = WithSelection(St, Toggle(St, image).selected, image)
        /\ Toggle(Toggle(St, image), image).selected = selected

\* C22 witness: two images are selected and the anchor is one of them; a
\* toggle of the other removes it, keeps the first and moves the anchor to the
\* removed image, and a second toggle puts it back.
C22_Witness ==
    \E image \in selected :
        /\ Cardinality(selected) = 2
        /\ last_anchor \in selected \ {image}
        /\ Toggle(St, image).selected = {last_anchor}
        /\ Toggle(St, image).last_anchor = image
        /\ Toggle(Toggle(St, image), image).selected = selected

\* C23: clear() empties both the selection set and the anchor: after clear() a
\* shift-click range_select(image, ordering) finds no anchor and only toggles
\* image.  (Stated of a clear() of two or more selected images, the step no
\* toggle can make.)
C23_ClearEmptiesSetAndAnchor ==
    [][(Cardinality(selected) >= 2 /\ St' = clear_selection(St)) =>
          /\ selected' = {}
          /\ last_anchor' = None
          /\ \A image \in Images :
                 \A order \in BrowseOrders(St') :
                     toggle_select(St', image, TRUE, order).selected = {image}]_vars

\* The request that led from St to St' was a toggle_select, a clear_selection
\* or a switch of folder.
SelectionRequest ==
    \/ St' = clear_selection(St)
    \/ \E image \in Images, shift_on \in BOOLEAN :
          \E order \in BrowseOrders(St) : St' = toggle_select(St, image, shift_on, order)
    \/ St' = switch_folder_endpoint(St, TRUE, ThisFolder)
    \/ St' = switch_folder_endpoint(St, TRUE, other_folder)

\* batch_rate(val) followed by batch_mark(flag).
BatchTwice(val, flag) == batch_mark(batch_rate(St, val), flag)

\* C24: batch_rate and batch_mark keep the selection set and the anchor, so a
\* second batch operation right after applies to the same images; the
\* selection only shrinks through toggle, clear or a folder switch.
C24_BatchKeepsSelection ==
    [][/\ \A val \in RatingInputs, flag \in BOOLEAN :
            /\ batch_rate(St, val).selected = selected
            /\ batch_rate(St, val).last_anchor = last_anchor
            /\ batch_mark(St, flag).selected = selected
            /\ batch_mark(St, flag).last_anchor = last_anchor
            /\ BatchTwice(val, flag).selected = selected
            /\ BatchTwice(val, flag).last_anchor = last_anchor
            /\ \A p \in Images :
                  IF p \in selected
                  THEN /\ AnnOf(BatchTwice(val, flag), p).marked = flag
                       /\ val \in Ratings => AnnOf(BatchTwice(val, flag), p).rating = val
                  ELSE BatchTwice(val, flag).table[p] = table[p]
       /\ ~(selected \subseteq selected') => SelectionRequest]_vars

\* C24 witness: both images of the folder are selected and unrated with the
\* anchor on one of them; batch_rate(2) rates both and batch_mark(mark) right
\* after marks the same two, with selection and anchor as they were.
C24_Witness ==
    /\ selected = files
    /\ Cardinality(selected) = 2
    /\ last_anchor \in selected
    /\ \A p \in selected : AnnOf(St, p) = [rating |-> 0, marked |-> FALSE]
    /\ \A p \in selected : AnnOf(batch_rate(St, 2), p) = [rating |-> 2, marked |-> FALSE]
    /\ \A p \in selected : AnnOf(BatchTwice(2, TRUE), p) = [rating |-> 2, marked |-> TRUE]
    /\ BatchTwice(2, TRUE).selected = selected
    /\ BatchTwice(2, TRUE).last_anchor = last_anchor

\* The session after each batch edit that can be requested in St.
BatchEdits ==
    {batch_rate(St, val) : val \in RatingInputs} \cup {batch_mark(St, flag) : flag \in BOOLEAN}

\* C25: batch edits are outside the undo mechanism: batch_rate and batch_mark
\* add no undo entry and do not move the cursor, and an undo() issued after a
\* batch edit reverts only the newest pre-existing Rate/Delete entry (it pops
\* that entry and writes that entry's image alone), never the batch edit: every
\* other image keeps its batch-edited record, the entry's image gets the
\* entry's rating back and keeps a batch mark when its record is updated, and
\* on an empty log the undo changes no record.
C25_BatchOutsideUndo ==
    \A b \in BatchEdits :
        /\ b.history = history
        /\ b.current_index = current_index
        /\ \A restore_ok \in BOOLEAN :
              IF history = <<>>
              THEN /\ undo(b, restore_ok).table = b.table
                   /\ undo(b, restore_ok).history = <<>>
              ELSE /\ undo(b, restore_ok).history = SubSeq(history, 1, Len(history) - 1)
                   /\ \A p \in Images \ {Newest.image_name} :
                          undo(b, restore_ok).table[p] = b.table[p]
                   /\ (/\ Newest.action = "rate"
                       /\ Newest.old_rating > 0
                       /\ b.table[Newest.image_name] # <<>>) =>
                          /\ AnnOf(undo(b, restore_ok), Newest.image_name).rating
                                = Newest.old_rating
                          /\ AnnOf(undo(b, restore_ok), Newest.image_name).marked
                                = AnnOf(b, Newest.image_name).marked

\* C25 witness: the newest undo entry is the re-rating of one image from 1, an
\* older entry exists, and the other image is selected and unrated;
\* batch_rate(2) rates the selected image, and the undo after it sets the first
\* image back to 1, pops that entry alone and leaves the batch rating 2 in place.
C25_Witness ==
    /\ Len(history) = 2
    /\ Newest.action = "rate"
    /\ Newest.old_rating = 1
    /\ AnnOf(St, Newest.image_name).rating = 2
    /\ \E p \in selected \ {Newest.image_name} :
          /\ AnnOf(St, p).rating = 0
          /\ AnnOf(batch_rate(St, 2), p).rating = 2
          /\ batch_rate(St, 2).history = history
          /\ AnnOf(undo(batch_rate(St, 2), TRUE), p).rating = 2
          /\ AnnOf(undo(batch_rate(St, 2), TRUE), Newest.image_name).rating = 1
          /\ undo(batch_rate(St, 2), TRUE).history = <<history[1]>>

\* The catalog position of the first image of a folder with no annotation
\* record, 0 when every image has one or the folder holds no image.
FirstWithoutRecord(folder) ==
    LET imgs == get_image_files([St EXCEPT !.files = folder.files])
        free == {i \in 0..(Len(imgs) - 1) : folder.table[imgs[i + 1]] = <<>>}
    IN IF free = {} THEN 0 ELSE CHOOSE i \in free : \A j \in free : i <= j

\* C26: switching folder (to the other folder, or to the folder the session is
\* in) resets the session: the selection is empty, the anchor absent, the undo
\* log empty, no filter is active, and current_index is the position of the
\* first image of the new catalog that has no annotation record (0 if every
\* image has one or the catalog is empty).
C26_SwitchFolderResetsSession ==
    \A folder \in {ThisFolder, other_folder} :
        switch_folder_endpoint(St, TRUE, folder)
            = [current_index |-> FirstWithoutRecord(folder),
               filter_unannotated |-> FALSE, filter_rating |-> NoFilter,
               history |-> <<>>, selected |-> {}, last_anchor |-> None,
               files |-> folder.files, table |-> folder.table]

\* C26 witness: a session with a selection, an anchor, an undo entry and the
\* Unannotated filter on, with the cursor on the first image, switches to a
\* folder whose first image has a record and whose second has none: the
\* session is reset and the cursor is at position 1.
C26_Witness ==
    /\ selected # {}
    /\ last_anchor # None
    /\ history # <<>>
    /\ filter_unannotated
    /\ current_index = 0
    /\ other_folder.table[1] # <<>>
    /\ other_folder.table[2] = <<>>
    /\ 2 \in other_folder.files
    /\ switch_folder_endpoint(St, TRUE, other_folder).current_index = 1
    /\ switch_folder_endpoint(St, TRUE, other_folder).selected = {}
    /\ switch_folder_endpoint(St, TRUE, other_folder).history = <<>>
    /\ ~switch_folder_endpoint(St, TRUE, other_folder).filter_unannotated

\* C30: with no filter active and the cursor on an image, rate_and_next(r)
\* with r in 1..N stores the rating r for that image and moves the cursor to
\* the next catalog position when the image is not the last one (on the last
\* image the cursor stays); the undo() that follows it returns current_index
\* to the rated image's position.
C30_RateAndNextThenUndo ==
    [][\A r \in Ratings :
          (/\ ~FilterActive(St)
           /\ get_current_image(St).img # None
           /\ St' = rate_and_next(St, r)) =>
              /\ AnnOf(St', ImageAt(St, current_index)).rating = r
              /\ current_index' = IF current_index + 1 < Len(get_image_files(St))
                                  THEN current_index + 1
                                  ELSE current_index
              /\ \A restore_ok \in BOOLEAN :
                    /\ undo(St', restore_ok).current_index = current_index
                    /\ ImageAt(undo(St', restore_ok), current_index)
                          = ImageAt(St, current_index)]_vars

\* C30 witness: the cursor is on the first of three images, rated 1 before;
\* rate_and_next(2) stores 2 and moves the cursor to position 1, and the undo
\* after it puts the cursor back on position 0 with the rating 1.
C30_Witness ==
    /\ ~FilterActive(St)
    /\ current_index = 0
    /\ Len(get_image_files(St)) = 3
    /\ AnnOf(St, ImageAt(St, 0)).rating = 1
    /\ AnnOf(rate_and_next(St, 2), ImageAt(St, 0)).rating = 2
    /\ rate_and_next(St, 2).current_index = 1
    /\ undo(rate_and_next(St, 2), TRUE).current_index = 0
    /\ AnnOf(undo(rate_and_next(St, 2), TRUE), ImageAt(St, 0)).rating = 1

\* The page served for the query b and the requested page.
Grid(s, b, page) ==
    render_browser_grid(s, b.q, b.rating_val, b.show, b.marked_only, b.sort, page)

\* C27: BrowseQuery clamps the requested page to [1, total_pages], with
\* total_pages at least 1 even for an empty result; whenever the filtered
\* result is non-empty, the served page is non-empty.
C27_PageClamped ==
    \A b \in BrowseQueries, page \in PageInputs :
        /\ Grid(St, b, page).total_pages >= 1
        /\ Grid(St, b, page).page_i \in 1..Grid(St, b, page).total_pages
        /\ Grid(St, b, page).total > 0 => Grid(St, b, page).page_items # <<>>

\* Two items of a browse result tie on the key of the sort mode.
TieOnSortKey(s, sort, x, y) ==
    IF sort = "marked_first"
    THEN get_annotations_map(s, x).marked = get_annotations_map(s, y).marked
    ELSE get_annotations_map(s, x).rating = get_annotations_map(s, y).rating

\* The items of the query b that tie on the sort key are in ascending
\* case-insensitive name order.
TiesAscending(s, b) ==
    LET items == filtered_items(s, b.q, b.rating_val, b.show, b.marked_only, b.sort)
    IN \A i, j \in 1..Len(items) :
          (i < j /\ TieOnSortKey(s, b.sort, items[i], items[j])) =>
              LowerKey(items[i]) <= LowerKey(items[j])

\* C28: in the sort modes rating ascending, rating descending and marked-first,
\* items that tie on the sort key appear in ascending case-insensitive name
\* order.
C28_TiesInNameOrder ==
    \A b \in BrowseQueries :
        b.sort \in {"rating_asc", "rating_desc", "marked_first"} => TiesAscending(St, b)

C33_CursorOnReturnedImage ==
    (FilterActive(St) /\ get_current_image(St).img # None) =>
        get_current_image(St).idx = index_of_image(St, get_current_image(St).img)

\* C34: the undo entry recorded by rate, rate_and_next or delete stores the
\* catalog position, at the time of the request, of the image it names, with
\* or without an active filter.
C34_EntryIndexIsPosition ==
    [][(DeleteStep \/ \E r \in Ratings : RateStep(r)) =>
          /\ history' # <<>>
          /\ history'[Len(history')].image_name = get_current_image(St).img
          /\ history'[Len(history')].index
                = index_of_image(St, get_current_image(St).img)]_vars

\* C35: from an empty table, every sequence of delete, undo, selection and
\* batch operations keeps every annotation record on a catalog image: no
\* record exists for an image that is not in the current catalog, in
\* particular not for an image that was selected and then deleted.
C35_RecordsOnCatalogImages == \A p \in Images : table[p] # <<>> => p \in files

C37_RateStaysOnImage ==
    [][\A r \in Ratings :
          (/\ get_current_image(St).img # None
           /\ ~get_current_image(St).exc
           /\ St' = rate(St, r)) =>
              get_current_image(St').img = get_current_image(St).img]_vars

ZeroRated(s, p) ==
    Cardinality({k \in 1..Len(s.table[p]) : s.table[p][k].rating = 0})

\* The request that led from St to St' was mark() or batch_mark().
MarkRequest ==
    \/ St' = mark(St)
    \/ \E flag \in BOOLEAN : St' = batch_mark(St, flag)

\* C39: every stored rating stays in 0..N: after any sequence of rate,
\* rate_and_next, batch_rate, mark, batch_mark, delete and undo each record has
\* a rating r with 0 <= r <= N, and a record with rating 0 only comes into
\* being in a mark or batch_mark request.
C39_RatingsInRange ==
    [][/\ \A p \in Images :
            \A k \in 1..Len(table'[p]) :
                0 <= table'[p][k].rating /\ table'[p][k].rating <= num_classes
       /\ \A p \in Images :
            ZeroRated(St', p) > ZeroRated(St, p) => MarkRequest]_vars

\* C39 witness: the current image has the rating N, and the newest undo entry
\* is its rating from a mark-only record (previous rating 0); one request
\* later the record is gone, not set back to rating 0, while the other image
\* holds a record with rating 0 that a mark created.
C39_Witness ==
    /\ history # <<>>
    /\ Newest.action = "rate"
    /\ Newest.old_rating = 0
    /\ table[Newest.image_name] = <<[rating |-> num_classes, marked |-> TRUE]>>
    /\ undo(St, TRUE).table[Newest.image_name] = <<>>
    /\ \E p \in files \ {Newest.image_name} : table[p] = <<[rating |-> 0, marked |-> TRUE]>>

\* The records of the session s whose image path is (in_catalog) or is not in
\* the catalog, as pairs of path and position.
RecordsOf(s, in_catalog) ==
    {<<p, k>> \in Images \X (1..(max_history + 2)) :
        k <= Len(s.table[p]) /\ ((p \in s.files) <=> in_catalog)}

\* C31: the orphan cleanup pass deletes exactly the records whose image path
\* is absent from the current catalog: afterwards every remaining record's
\* path is in the catalog, every record whose path is in the catalog is left
\* unchanged, and nothing else of the session changes.
C31_CleanupDeletesOrphans ==
    /\ RecordsOf(cleanup_orphaned_entries(St), FALSE) = {}
    /\ RecordsOf(cleanup_orphaned_entries(St), TRUE) = RecordsOf(St, TRUE)
    /\ \A p \in files : cleanup_orphaned_entries(St).table[p] = table[p]
    /\ [cleanup_orphaned_entries(St) EXCEPT !.table = table] = St
    /\ \A on_disk \in SUBSET files :
          \A p \in Images :
              restart(St, on_disk).table[p] = IF p \in on_disk THEN table[p] ELSE <<>>

\* C31 witness: one image is gone from the catalog and still has a record,
\* the other is in the catalog with two records; the cleanup deletes the
\* record of the first and leaves both records of the second, and deletes
\* both when the second image is gone at the next start.
C31_Witness ==
    \E p \in Images \ files :
        \E x \in files :
            /\ table[p] # <<>>
            /\ Len(table[x]) = 2
            /\ cleanup_orphaned_entries(St).table[p] = <<>>
            /\ cleanup_orphaned_entries(St).table[x] = table[x]
            /\ restart(St, files \ {x}).table[x] = <<>>

\* The session on a fresh folder, before any request.
Fresh ==
    [current_index |-> 0, filter_unannotated |-> FALSE, filter_rating |-> NoFilter,
     history |-> <<>>, selected |-> {}, last_anchor |-> None,
     files |-> Images, table |-> [p \in Images |-> <<>>]]

\* Both workers have handled a rate request with a rating in 1..num_classes.
BothRated ==
    \A t \in Workers : requests[t].pc = "done" /\ requests[t].rating \in Ratings

\* C32: two rate requests for the same current image, which has no record
\* yet, handled concurrently end in a state that running the two requests one
\* after the other reaches: exactly one record for the image, and two undo
\* entries whose previous ratings are 0 and the first request's rating.
C32_ConcurrentRatesSerialized ==
    BothRated =>
        /\ \E t \in Workers :
              \E u \in Workers \ {t} :
                  /\ St = rate(rate(Fresh, requests[t].rating), requests[u].rating)
                  /\ history[2].old_rating = requests[t].rating
        /\ Len(table[1]) = 1
        /\ Len(history) = 2
        /\ history[1].old_rating = 0

\* C40 (bound): while the scan loop of the main.py navigate runs it has taken
\* at most len(catalog) steps, each step moving new_index by one, and attempts
\* never passes len(catalog).
C40_ScanWithinCatalogLength ==
    (scan.version = "main" /\ scan.pc # "idle") =>
        /\ Abs(scan.new_index - scan.start) <= Len(get_image_files(St))
        /\ scan.attempts <= Len(get_image_files(St))

\* C40 (result): the models.py navigate returns True exactly when
\* current_index changed.
C40_TrueIffMoved ==
    (scan.version = "models" /\ scan.pc = "returned") =>
        (scan.result <=> current_index # scan.start)

\* C40: filtered navigation always terminates: for every catalog, the empty
\* one included, every table and both directions, the scan loop of navigate
\* under the unannotated or a rating filter ends after at most len(catalog)
\* steps, and the while-True loop of the models.py navigate ends as well,
\* returning True exactly when current_index changed.
C40_NavigationTerminates ==
    /\ [](C40_ScanWithinCatalogLength /\ C40_TrueIffMoved)
    /\ (scan.pc = "loop") ~> (scan.pc = "returned")

\* C40, second witness: the models.py scan has passed over annotated images and
\* returned True on an unannotated one two positions away.
C40_WitnessModels ==
    /\ scan.pc = "returned"
    /\ scan.version = "models"
    /\ filter_unannotated
    /\ scan.result
    /\ Abs(current_index - scan.start) = 2

\* C40 witness: the main.py scan under a rating filter has used
\* all len(catalog) - 1 positions after the cursor and found no match.
C40_Witness ==
    /\ scan.pc = "returned"
    /\ scan.version = "main"
    /\ filter_rating # NoFilter
    /\ Len(get_image_files(St)) = NumImages
    /\ scan.attempts = NumImages - 1
    /\ current_index = scan.start

====
